---- MODULE Spec2Model ----
(***************************************************************************)
(* A model of covidtrucker.py: the COVID-19 Global Data Tracker script.   *)
(*                                                                         *)
(* Two specifications share the module.                                    *)
(*   Spec      the run of the script: load_data with its fallback, the    *)
(*             module-level pipeline (sections 2-7) and navigation_menu.   *)
(*             A data frame is abstracted to its set of columns and to     *)
(*             whether any of its rows passes the section-3 filter.        *)
(*   DataSpec  sections 2 and 3 on concrete rows: dropna, sort_values,     *)
(*             the per-location forward fill and the country/date mask.    *)
(* An exception no handler of the script catches ends the run (pc =        *)
(* "crashed").                                                             *)
(***************************************************************************)
EXTENDS Integers, Sequences, FiniteSets, TLC

VARIABLES
    pc,          \* the statement the script executes next
    localFile,   \* content of LOCAL_PATH in the working directory
    remoteErr,   \* the exception `e` caught in load_data ("none": try block ran through)
    df,          \* module-level df
    df_filt,     \* module-level df_filt
    exc,         \* the uncaught exception that ended the run ("none" otherwise)
    log,         \* pipeline stages completed so far, in order
    iterations,  \* iterations of the menu loop executed
    choice,      \* navigation_menu's `choice` in the last iteration
    shown,       \* chart displayed by the last menu iteration
    msg,         \* message printed after the choice in the last menu iteration
    raw,         \* DataSpec: rows of the loaded frame, in file order
    rows,        \* DataSpec: rows of df as sections 2-3 proceed
    filt,        \* DataSpec: rows of df_filt
    dpc          \* DataSpec: the statement of sections 2-3 executed next

flowVars == <<pc, localFile, remoteErr, df, df_filt, exc, log, iterations, choice, shown, msg>>
dataVars == <<raw, rows, filt, dpc>>
vars == <<pc, localFile, remoteErr, df, df_filt, exc, log, iterations, choice, shown, msg,
          raw, rows, filt, dpc>>

---------------------------------------------------------------------------
(* Bounds of the model. *)

\* A file header lacks at most this many of the columns in FileCols.
MaxMissing == 1
\* Inputs typed at the menu prompt in one run.
MaxInputs == 3
\* Rows of the loaded frame.
MaxRows == 3

---------------------------------------------------------------------------
(* Section 1: files, read_csv and load_data. *)

\* cols, section 2.
Cols == {"iso_code", "location", "date", "total_cases", "new_cases",
         "total_deaths", "new_deaths", "total_vaccinations",
         "people_vaccinated_per_hundred"}

\* Header of a complete OWID file: cols and one column the script does not list.
FileCols == Cols \cup {"continent"}

ColumnSets == {FileCols \ s : s \in {t \in SUBSET FileCols : Cardinality(t) <= MaxMissing}}

\* Whether some row of the frame is of a configured country on or after start_date.
RowClasses == {"unselected", "selected"}

Absent == [kind |-> "absent", columns |-> {}, rows |-> "unselected"]
\* Bytes that are no CSV table: an empty or truncated file, an HTML page.
Corrupt == [kind |-> "corrupt", columns |-> {}, rows |-> "unselected"]
CsvFiles == [kind : {"csv"}, columns : ColumnSets, rows : RowClasses]

\* What the URL can serve with status 200.
RemoteContents == {Corrupt} \cup CsvFiles
\* What LOCAL_PATH can hold when the script starts.
LocalContents == {Absent, Corrupt} \cup CsvFiles

NoDf == [columns |-> {}, rows |-> "unselected"]

\* pd.read_csv(LOCAL_PATH, parse_dates=['date'], low_memory=False) on an existing file:
\* bytes that are no table raise ParserError/EmptyDataError, a table without a
\* date column raises ValueError.
ReadCsv(file) ==
    IF file.kind # "csv" THEN [ok |-> FALSE, df |-> NoDf, exc |-> "ParserError"]
    ELSE IF "date" \notin file.columns THEN [ok |-> FALSE, df |-> NoDf, exc |-> "ValueError"]
    ELSE [ok |-> TRUE, df |-> [columns |-> file.columns, rows |-> file.rows], exc |-> "none"]

\* os.path.exists(LOCAL_PATH)
Exists(file) == file.kind # "absent"

FallbackNoRaise(file) ==
    IF Exists(file) THEN ReadCsv(file) ELSE [ok |-> TRUE, df |-> NoDf, exc |-> "none"]

\* The except branch of load_data, with LOCAL_PATH holding `file`.
Fallback(file) ==
    IF Exists(file) THEN ReadCsv(file)
    ELSE [ok |-> FALSE, df |-> NoDf, exc |-> "FileNotFoundError"]

\* How the try block of load_data can go: requests.get raises (connection error,
\* timeout), raise_for_status raises, open raises, f.write raises, or the body
\* is written.
RemoteOutcomes == {"request_error", "timeout", "bad_status", "open_error", "write_error", "written"}

\* What a write that raises can leave in LOCAL_PATH, which open(LOCAL_PATH, 'wb')
\* has truncated: nothing readable, or the first rows of the body.
Truncations(body) ==
    {Corrupt} \cup (IF body.kind = "csv"
                    THEN {[body EXCEPT !.rows = r] : r \in {"unselected", body.rows}}
                    ELSE {})

\* LOCAL_PATH after the try block: a write that returns leaves the body, a
\* write that raises leaves `partial`, an earlier exception leaves the file.
FileAfterTry(file, outcome, body, partial) ==
    CASE outcome = "written" -> body
      [] outcome = "write_error" -> partial
      [] OTHER -> file

\* The exception the try block raises ("none": it ran through to read_csv's return).
TryError(outcome, body) ==
    CASE outcome = "written" -> IF ReadCsv(body).ok THEN "none" ELSE "parse_error"
      [] OTHER -> outcome

\* df = load_data(); print(...)
Load ==
    /\ pc = "load"
    /\ \E outcome \in RemoteOutcomes, body \in RemoteContents :
       \E partial \in Truncations(body) :
         LET after == FileAfterTry(localFile, outcome, body, partial)
             e == TryError(outcome, body)
             res == IF e = "none" THEN ReadCsv(after) ELSE Fallback(after)
         IN /\ localFile' = after
            /\ remoteErr' = e
            /\ IF res.ok
               THEN /\ df' = res.df
                    /\ pc' = "clean"
                    /\ exc' = "none"
                    /\ log' = Append(log, "load")
               ELSE /\ df' = df
                    /\ pc' = "crashed"
                    /\ exc' = res.exc
                    /\ log' = log
    /\ UNCHANGED <<df_filt, iterations, choice, shown, msg>>
    /\ UNCHANGED dataVars

---------------------------------------------------------------------------
(* Sections 2-7: the module-level pipeline. *)

\* An uncaught exception ends the run.
Crash(e) ==
    /\ pc' = "crashed"
    /\ exc' = e
    /\ UNCHANGED <<log, iterations, choice, shown, msg>>

\* A stage ran through; the script goes on with `next`.
Done(stage, next) ==
    /\ pc' = next
    /\ exc' = "none"
    /\ log' = Append(log, stage)
    /\ UNCHANGED <<iterations, choice, shown, msg>>

\* Section 2: available, df[available].dropna(subset=['date','location']),
\* sort_values, groupby('location').apply(ffill).
Clean ==
    /\ pc = "clean"
    /\ IF "location" \in df.columns
       THEN /\ df' = [df EXCEPT !.columns = df.columns \cap Cols]
            /\ Done("clean", "filter")
       ELSE /\ df' = df
            /\ Crash("KeyError")
    /\ UNCHANGED <<localFile, remoteErr, df_filt>>
    /\ UNCHANGED dataVars

\* Section 3: mask, df_filt = df.loc[mask].
Filter ==
    /\ pc = "filter"
    /\ df_filt' = [columns |-> df.columns, rows |-> df.rows]
    /\ Done("filter", "cases")
    /\ UNCHANGED <<localFile, remoteErr, df>>
    /\ UNCHANGED dataVars

\* for loc, grp in data.groupby('location'): ... grp[c] ... raises KeyError
\* when the frame has a group and lacks one of the columns the loop body reads.
PlotRaises(data, needed) == data.rows = "selected" /\ ~(needed \subseteq data.columns)

\* plot_time_series(df_filt, 'total_cases', ...)
PlotCases ==
    /\ pc = "cases"
    /\ IF PlotRaises(df_filt, {"date", "total_cases"})
       THEN Crash("KeyError")
       ELSE Done("cases", "deaths")
    /\ UNCHANGED <<localFile, remoteErr, df, df_filt>>
    /\ UNCHANGED dataVars

\* plot_time_series(df_filt, 'total_deaths', ...)
PlotDeaths ==
    /\ pc = "deaths"
    /\ IF PlotRaises(df_filt, {"date", "total_deaths"})
       THEN Crash("KeyError")
       ELSE Done("deaths", "vacc")
    /\ UNCHANGED <<localFile, remoteErr, df, df_filt>>
    /\ UNCHANGED dataVars

NoVaccGuard(data) == TRUE

\* 'total_vaccinations' in df_filt.columns
HasVaccColumn(data) == "total_vaccinations" \in data.columns

\* Section 5: the guarded plot_dual_axis call.
PlotVacc ==
    /\ pc = "vacc"
    /\ IF HasVaccColumn(df_filt)
       THEN IF PlotRaises(df_filt, {"date", "new_cases", "total_vaccinations"})
            THEN Crash("KeyError")
            ELSE Done("vacc", "map")
       ELSE /\ pc' = "map"
            /\ exc' = "none"
            /\ UNCHANGED <<log, iterations, choice, shown, msg>>
    /\ UNCHANGED <<localFile, remoteErr, df, df_filt>>
    /\ UNCHANGED dataVars

\* Section 6: latest, set_index('iso_code'), the naturalearth read, the merge,
\* map_df.plot(column='total_cases'), ctx.add_basemap (a tile download), show.
Map ==
    /\ pc = "map"
    /\ \E envOk \in BOOLEAN :
         IF ~({"iso_code", "total_cases"} \subseteq df.columns) THEN Crash("KeyError")
         ELSE IF ~envOk THEN Crash("IOError")
         ELSE Done("map", "summary")
    /\ UNCHANGED <<localFile, remoteErr, df, df_filt>>
    /\ UNCHANGED dataVars

\* Section 7: death_rate, top5, the two prints.
Summary ==
    /\ pc = "summary"
    /\ IF {"total_deaths", "total_cases", "location"} \subseteq df.columns
       THEN Done("summary", "menu")
       ELSE Crash("KeyError")
    /\ UNCHANGED <<localFile, remoteErr, df, df_filt>>
    /\ UNCHANGED dataVars

---------------------------------------------------------------------------
(* navigation_menu *)

\* Lines typed at the prompt: the five entries and two others.
Inputs == {"1", "2", "3", "4", "5", "6", "x"}

BranchCopyPaste(c, data) ==
    CASE c = "1" -> "cases"
      [] c = "2" -> "deaths"
      [] c = "3" /\ HasVaccColumn(data) -> "vacc"
      [] c = "4" -> "deaths"
      [] c = "5" -> "exit"
      [] OTHER -> "invalid"

\* The branch of the if/elif chain taken for `c`: the chart it plots, "exit",
\* or "invalid".
Branch(c, data) ==
    CASE c = "1" -> "cases"
      [] c = "2" -> "deaths"
      [] c = "3" /\ HasVaccColumn(data) -> "vacc"
      [] c = "4" -> "cases_deaths"
      [] c = "5" -> "exit"
      [] OTHER -> "invalid"

\* Columns the plot function of a chart reads inside its per-group loop.
Needed(chart) ==
    CASE chart = "cases" -> {"date", "total_cases"}
      [] chart = "deaths" -> {"date", "total_deaths"}
      [] chart = "vacc" -> {"date", "new_cases", "total_vaccinations"}
      [] chart = "cases_deaths" -> {"date", "new_cases", "new_deaths"}

\* One iteration of the while True loop: print the menu, read a line, dispatch.
MenuStep ==
    /\ pc = "menu"
    /\ iterations < MaxInputs
    /\ \E c \in Inputs :
         LET b == Branch(c, df_filt)
         IN /\ choice' = c
            /\ iterations' = iterations + 1
            /\ log' = log
            /\ CASE b = "exit" ->
                      /\ pc' = "done" /\ exc' = "none"
                      /\ shown' = "none" /\ msg' = "exiting"
                 [] b = "invalid" ->
                      /\ pc' = "menu" /\ exc' = "none"
                      /\ shown' = "none" /\ msg' = "invalid"
                 [] OTHER ->
                      IF PlotRaises(df_filt, Needed(b))
                      THEN /\ pc' = "crashed" /\ exc' = "KeyError"
                           /\ shown' = "none" /\ msg' = "none"
                      ELSE /\ pc' = "menu" /\ exc' = "none"
                           /\ shown' = b /\ msg' = "none"
    /\ UNCHANGED <<localFile, remoteErr, df, df_filt>>
    /\ UNCHANGED dataVars

---------------------------------------------------------------------------
(* The run of the script. *)

DataIdle ==
    /\ raw = <<>>
    /\ rows = <<>>
    /\ filt = <<>>
    /\ dpc = "idle"

Init ==
    /\ pc = "load"
    /\ localFile \in LocalContents
    /\ remoteErr = "none"
    /\ df = NoDf
    /\ df_filt = NoDf
    /\ exc = "none"
    /\ log = <<>>
    /\ iterations = 0
    /\ choice = "none"
    /\ shown = "none"
    /\ msg = "none"
    /\ DataIdle

Next ==
    \/ Load
    \/ Clean
    \/ Filter
    \/ PlotCases
    \/ PlotDeaths
    \/ PlotVacc
    \/ Map
    \/ Summary
    \/ MenuStep

Spec == Init /\ [][Next]_vars

---------------------------------------------------------------------------
(* Sections 2 and 3 on concrete rows. A row is a location, a date and the  *)
(* value of one metric column; src is the row's line in the file, kept to  *)
(* tell rows apart. Dates are day numbers; strings order alphabetically.   *)

\* A missing date (NaT) and a missing value (NaN).
NaT == 0
NaN == 0
\* A missing location.
NoLocation == ""

\* start_date = pd.to_datetime('2021-01-01'), as a day number: day 1 is before it.
start_date == 2

\* countries, section 3.
countries == {"United States", "India", "Brazil"}

Locations == {"India", "Kenya"}
Dates == {1, 2, 3}
Values == {1, 2}

\* Rows a file can hold: complete keys with any value, a row without location
\* and a row without date.
RowKinds ==
    [location : Locations, date : Dates, v : Values \cup {NaN}]
    \cup {[location |-> NoLocation, date |-> 1, v |-> 1],
          [location |-> "India", date |-> NaT, v |-> 1]}

RawFrames == UNION {[1..n -> RowKinds] : n \in 0..MaxRows}

Range(s) == {s[i] : i \in 1..Len(s)}

\* The frame read from the file: row k carries src = k.
Frame(file) == [k \in 1..Len(file) |->
                  [location |-> file[k].location, date |-> file[k].date,
                   v |-> file[k].v, src |-> k]]

\* dropna(subset=['date', 'location'])
DropNa(s) == SelectSeq(s, LAMBDA r : r.date # NaT /\ r.location # NoLocation)

\* Alphabetical order of the location strings.
LocRank(l) ==
    CASE l = "Brazil" -> 1
      [] l = "India" -> 2
      [] l = "Kenya" -> 3
      [] l = "United States" -> 4
      [] OTHER -> 0

\* The sort key ['location', 'date'].
RowLess(a, b) ==
    \/ LocRank(a.location) < LocRank(b.location)
    \/ a.location = b.location /\ a.date < b.date

RECURSIVE Insert(_, _)
Insert(r, s) ==
    IF s = <<>> THEN <<r>>
    ELSE IF RowLess(r, s[Len(s)])
         THEN Append(Insert(r, SubSeq(s, 1, Len(s) - 1)), s[Len(s)])
         ELSE Append(s, r)

\* sort_values(['location', 'date']): several keys sort stably, rows with equal
\* keys keep their order.
RECURSIVE SortValues(_)
SortValues(s) ==
    IF s = <<>> THEN <<>>
    ELSE Insert(s[Len(s)], SortValues(SubSeq(s, 1, Len(s) - 1)))

\* g.fillna(method='ffill') on one group: a missing value takes the last value
\* seen above it.
RECURSIVE FFillFrom(_, _)
FFillFrom(g, last) ==
    IF g = <<>> THEN <<>>
    ELSE LET value == IF g[1].v = NaN THEN last ELSE g[1].v
         IN <<[g[1] EXCEPT !.v = value]>> \o FFillFrom(Tail(g), value)

\* The group keys in the order groupby yields them.
GroupKeys == <<"Brazil", "India", "Kenya", "United States">>

RECURSIVE ApplyFrom(_, _)
ApplyFrom(s, k) ==
    IF k > Len(GroupKeys) THEN <<>>
    ELSE FFillFrom(SelectSeq(s, LAMBDA r : r.location = GroupKeys[k]), NaN)
         \o ApplyFrom(s, k + 1)

FFillWholeFrame(s) == FFillFrom(s, NaN)

\* df.groupby('location').apply(lambda g: g.fillna(method='ffill')).reset_index(drop=True)
GroupFFill(s) == ApplyFrom(s, 1)

RECURSIVE MaxDate(_)
\* df['date'].max(); NaT on an empty frame.
MaxDate(s) ==
    IF s = <<>> THEN NaT
    ELSE LET m == MaxDate(Tail(s)) IN IF s[1].date > m THEN s[1].date ELSE m

MaskStrict(r, end_date) ==
    /\ r.location \in countries
    /\ r.date > start_date
    /\ end_date # NaT /\ r.date <= end_date

\* mask, section 3; a comparison with NaT is False.
Mask(r, end_date) ==
    /\ r.location \in countries
    /\ r.date >= start_date
    /\ end_date # NaT /\ r.date <= end_date

\* df[available].dropna(subset=['date', 'location'])
DropNaStep ==
    /\ dpc = "dropna"
    /\ rows' = DropNa(rows)
    /\ dpc' = "sort"
    /\ UNCHANGED <<raw, filt>>
    /\ UNCHANGED flowVars

\* df.sort_values(['location', 'date'])
SortStep ==
    /\ dpc = "sort"
    /\ rows' = SortValues(rows)
    /\ dpc' = "ffill"
    /\ UNCHANGED <<raw, filt>>
    /\ UNCHANGED flowVars

\* df.groupby('location').apply(...).reset_index(drop=True)
FFillStep ==
    /\ dpc = "ffill"
    /\ rows' = GroupFFill(rows)
    /\ dpc' = "filter"
    /\ UNCHANGED <<raw, filt>>
    /\ UNCHANGED flowVars

\* end_date = df['date'].max(); df_filt = df.loc[mask]
FilterStep ==
    /\ dpc = "filter"
    /\ LET end_date == MaxDate(rows)
       IN filt' = SelectSeq(rows, LAMBDA r : Mask(r, end_date))
    /\ dpc' = "done"
    /\ UNCHANGED <<raw, rows>>
    /\ UNCHANGED flowVars

FlowIdle ==
    /\ pc = "idle"
    /\ localFile = Absent
    /\ remoteErr = "none"
    /\ df = NoDf
    /\ df_filt = NoDf
    /\ exc = "none"
    /\ log = <<>>
    /\ iterations = 0
    /\ choice = "none"
    /\ shown = "none"
    /\ msg = "none"

DataInit ==
    /\ raw \in RawFrames
    /\ rows = Frame(raw)
    /\ filt = <<>>
    /\ dpc = "dropna"
    /\ FlowIdle

DataNext ==
    \/ DropNaStep
    \/ SortStep
    \/ FFillStep
    \/ FilterStep

DataSpec == DataInit /\ [][DataNext]_vars

---------------------------------------------------------------------------
(* Properties of the run (Spec). *)

IsPrefix(s, t) == Len(s) <= Len(t) /\ \A i \in 1..Len(s) : s[i] = t[i]

\* C1: whenever the remote attempt fails while LOCAL_PATH holds a readable
\* file, load_data returns the data of that file instead of failing.
C1_FallbackReturnsLocalData ==
    [][(pc = "load" /\ ReadCsv(localFile).ok /\ remoteErr' # "none")
         => (pc' = "clean" /\ df' = ReadCsv(localFile).df)]_vars

\* C2: when the remote attempt has failed and LOCAL_PATH does not exist, the
\* run has ended with FileNotFoundError and nothing after load_data has run: no
\* stage is logged, no filtered frame exists, the menu never iterated.
C2_NoLocalFileStopsRun ==
    (remoteErr # "none" /\ ~Exists(localFile))
        => /\ pc = "crashed"
           /\ exc = "FileNotFoundError"
           /\ log = <<>>
           /\ df = NoDf /\ df_filt = NoDf
           /\ iterations = 0 /\ shown = "none"

C2_Witness ==
    /\ remoteErr = "timeout"
    /\ ~Exists(localFile)
    /\ exc = "FileNotFoundError"

\* The stages of a complete run up to the menu, in order.
StageOrder(withVacc) ==
    <<"load", "clean", "filter", "cases", "deaths">>
    \o (IF withVacc THEN <<"vacc">> ELSE <<>>)
    \o <<"map", "summary">>

\* C3: in every run that completed loading the stages run in the fixed order,
\* and once the run is at the menu or over, each stage has run exactly once
\* (the vaccination chart if the column is there).
C3_EveryStageOnceInOrder ==
    log # <<>> =>
        /\ IsPrefix(log, StageOrder(HasVaccColumn(df)))
        /\ pc \in {"menu", "done", "crashed"} => log = StageOrder(HasVaccColumn(df))

C5_LoopEndsOnlyOnExit ==
    iterations > 0 =>
        /\ pc # "menu" <=> choice = "5"
        /\ pc # "menu" => shown = "none"

\* C7: the dual-axis chart is displayed, in the initial run and on '3', only
\* with a total_vaccinations column in the filtered data; without the column
\* the initial run goes from the deaths chart to the map without it, and '3'
\* displays nothing, prints Invalid choice and the menu comes again.
C7_VaccChartOnlyWithColumn ==
    /\ [](/\ "vacc" \in Range(log) => "total_vaccinations" \in df_filt.columns
          /\ shown = "vacc" => "total_vaccinations" \in df_filt.columns
          /\ (iterations > 0 /\ choice = "3" /\ "total_vaccinations" \notin df_filt.columns)
               => (shown = "none" /\ msg = "invalid" /\ pc = "menu"))
    /\ [][(pc = "vacc" /\ "total_vaccinations" \notin df_filt.columns)
            => (pc' = "map" /\ log' = log /\ exc' = "none")]_vars

C7_Witness ==
    /\ "total_vaccinations" \notin df_filt.columns
    /\ log = StageOrder(FALSE)
    /\ choice = "3"
    /\ shown = "none"
    /\ msg = "invalid"
    /\ pc = "menu"

---------------------------------------------------------------------------
(* Properties of cleaning and filtering (DataSpec). *)

\* Lines of the file that have both a date and a location.
Kept == {k \in 1..Len(raw) : raw[k].date # NaT /\ raw[k].location # NoLocation}

Cleaned == dpc \in {"filter", "done"}

\* Rows missing date or location are removed, every other row is kept once
\* with its location and date.
KeptRowsOnly ==
    /\ Len(rows) = Cardinality(Kept)
    /\ {rows[i].src : i \in 1..Len(rows)} = Kept
    /\ \A i \in 1..Len(rows) :
         /\ rows[i].location = raw[rows[i].src].location
         /\ rows[i].date = raw[rows[i].src].date

\* Line j is earlier by date than line k.
EarlierByDate(j, k) == raw[j].date < raw[k].date

\* Line j comes before line k in date order, lines of one date in file order.
EarlierInOrder(j, k) ==
    \/ raw[j].date < raw[k].date
    \/ raw[j].date = raw[k].date /\ j < k

\* The lines a missing value of line k may be filled from: same location,
\* value present, before k.
Donors(k, Before(_, _)) ==
    {j \in Kept : /\ raw[j].location = raw[k].location
                  /\ raw[j].v # NaN
                  /\ Before(j, k)}

\* The donors none of which is followed by another donor.
MostRecent(k, Before(_, _)) ==
    {j \in Donors(k, Before) : \A h \in Donors(k, Before) : ~Before(j, h)}

\* Every value present in the file is kept; a missing one is the value of a
\* most recent donor, and stays missing without donor.
FilledFrom(Before(_, _)) ==
    \A i \in 1..Len(rows) :
        LET k == rows[i].src
        IN IF raw[k].v # NaN THEN rows[i].v = raw[k].v
           ELSE IF Donors(k, Before) = {} THEN rows[i].v = NaN
           ELSE \E j \in MostRecent(k, Before) : rows[i].v = raw[j].v

\* C8 as stated: a missing value becomes the most recent earlier-by-date
\* value of the same location, stays missing when there is none, and rows
\* missing date or location are removed.
C8_FFillFromEarlierDate ==
    Cleaned => (KeptRowsOnly /\ FilledFrom(EarlierByDate))

\* C8 amended: a missing value becomes the value of the most recent earlier row
\* of the same location, where rows are taken in date order and rows of one
\* date in file order (so a row may be filled from a row of its own date that
\* precedes it in the file); it stays missing when the location has no such
\* row; no value comes from another location; rows missing date or location
\* are removed.
C8_FFillFromEarlierRow ==
    Cleaned => (KeptRowsOnly /\ FilledFrom(EarlierInOrder))

\* A row filled from an earlier row of its location, next to a row of another
\* location that stays missing right below a row with a value.
C8_Witness ==
    /\ Cleaned
    /\ \E i \in 2..Len(rows) : /\ raw[rows[i].src].v = NaN
                                /\ rows[i].v = rows[i - 1].v
                                /\ rows[i].v # NaN
                                /\ rows[i - 1].date < rows[i].date
    /\ \E i \in 2..Len(rows) : /\ rows[i].v = NaN
                                /\ rows[i - 1].v # NaN
                                /\ rows[i - 1].location # rows[i].location

\* df['date'].max() of the cleaned frame as the claim reads it: the greatest
\* date of a kept line.
LastDate == IF Kept = {} THEN NaT ELSE CHOOSE d \in {raw[k].date : k \in Kept} :
                                          \A k \in Kept : raw[k].date <= d

\* C6: df_filt holds exactly the rows of the cleaned frame whose location is
\* United States, India or Brazil and whose date is from 2021-01-01 to the
\* greatest date of the cleaned frame, each once and unchanged.
C6_FilterSelectsExactly ==
    dpc = "done" =>
        /\ Range(filt) = {r \in Range(rows) :
                            /\ r.location \in {"United States", "India", "Brazil"}
                            /\ start_date <= r.date
                            /\ r.date <= LastDate}
        /\ Len(filt) = Cardinality(Range(filt))

C6_Witness ==
    /\ dpc = "done"
    /\ \E i \in 1..Len(filt) : filt[i].date = start_date
    /\ \E i \in 1..Len(rows) : rows[i].location = "India" /\ rows[i].date < start_date
    /\ \E i \in 1..Len(rows) : rows[i].location \notin countries

====
